---- MODULE Spec2Model ----
(***************************************************************************)
(* web3-utils.js: address comparison, Wei conversion with rounding,        *)
(* address shortening and the per-provider cache of web3 instances.        *)
(*                                                                         *)
(* A JavaScript string is a sequence of one-character tokens, one token    *)
(* per UTF-16 code unit ("ellipsis" stands for U+2026, "eszett" for        *)
(* U+00DF).  An optional argument is a sequence of length 0 (omitted) or   *)
(* 1 (given).  A value that may be null or undefined is a record with a    *)
(* field t.                                                                *)
(***************************************************************************)
EXTENDS Integers, Sequences, FiniteSets, TLC

VARIABLES
    pc,          \* "call" before the function under study runs, "done" after
    first,       \* addressesEqual: first argument
    second,      \* addressesEqual: second argument
    equal,       \* addressesEqual: returned boolean
    wei,         \* fromWeiRounded: wei argument
    digits,      \* fromWeiRounded: digits argument (optional)
    unit,        \* fromWeiRounded: unit argument (optional)
    unitValue,   \* fromWeiRounded: returned string
    address,     \* shortenAddress: address argument
    charsLength, \* shortenAddress: charsLength argument (optional)
    shortened,   \* shortenAddress: returned string
    cache,       \* getWeb3: the WeakMap, provider identity -> instance (0: no entry)
    created,     \* getWeb3: number of Web3 instances constructed so far
    calls        \* getWeb3: the calls made so far, in order

vars == <<pc, first, second, equal, wei, digits, unit, unitValue,
          address, charsLength, shortened, cache, created, calls>>

------------------------------------------------------------------------------
(* Bounds of the model *)

MaxSig == 3        \* significant digits of a wei input
MaxZeros == 16     \* zeros appended to the significant digits of a wei input
MaxDigits == 3     \* largest digits argument
MaxStrLen == 2     \* length of the strings compared by addressesEqual
MaxAddrLen == 16   \* length of the sample addresses given to shortenAddress
MaxShortLen == 5   \* length of the exhaustively enumerated addresses
MaxChars == 5      \* largest charsLength argument
MaxCalls == 4      \* number of getWeb3 calls

------------------------------------------------------------------------------
(* Strings *)

RECURSIVE Strings(_, _)
\* all strings over alphabet of length at most n
Strings(alphabet, n) ==
    IF n = 0 THEN {<<>>}
    ELSE LET shorter == Strings(alphabet, n - 1)
         IN  shorter \cup {Append(s, c) : s \in shorter, c \in alphabet}

\* String.prototype.substring(from, to) with 0 <= from, zero-based, end exclusive
substring(s, from, to) ==
    LET e == IF to > Len(s) THEN Len(s) ELSE to
    IN  IF from >= e THEN <<>> ELSE SubSeq(s, from + 1, e)

\* String.prototype.indexOf(c) for a one-character c
indexOf(s, c) ==
    IF \E i \in 1..Len(s) : s[i] = c
    THEN (CHOOSE i \in 1..Len(s) : s[i] = c /\ \A j \in 1..(i - 1) : s[j] # c) - 1
    ELSE -1

Zeros(n) == [i \in 1..n |-> "0"]

DigitChars == <<"0", "1", "2", "3", "4", "5", "6", "7", "8", "9">>

IsDigit(c) == \E i \in 1..10 : DigitChars[i] = c

DigitVal(c) == (CHOOSE i \in 1..10 : DigitChars[i] = c) - 1

RECURSIVE StripLeadingZeros(_)
\* the decimal digits of the number a digit string denotes
StripLeadingZeros(s) ==
    IF Len(s) > 1 /\ s[1] = "0" THEN StripLeadingZeros(Tail(s)) ELSE s

RECURSIVE StripTrailingZeros(_)
StripTrailingZeros(s) ==
    IF Len(s) > 0 /\ s[Len(s)] = "0" THEN StripTrailingZeros(SubSeq(s, 1, Len(s) - 1))
    ELSE s

------------------------------------------------------------------------------
(* JavaScript values *)

Null == [t |-> "null"]
Undefined == [t |-> "undefined"]
Str(s) == [t |-> "string", s |-> s]

\* ToBoolean of null, undefined or a string
Truthy(v) == v.t = "string" /\ v.s # <<>>

\* a default parameter value applies when the argument is omitted
Default(arg, d) == IF arg = <<>> THEN d ELSE arg[1]

------------------------------------------------------------------------------
(* fromWeiRounded *)

\* number of zeros of the unit's value in the library's unit map
unitMap(u) ==
    CASE u = "wei" -> 0
      [] u = "kwei" -> 3
      [] u = "gwei" -> 9
      [] u = "ether" -> 18

\* Web3.utils.fromWei(wei, unit) for a non-negative decimal integer string:
\* whole and fraction are the quotient and remainder by the unit's value, the
\* fraction is padded to the unit's length and loses its trailing zeros, and a
\* zero fraction is dropped together with the decimal point.
fromWei(w, u) ==
    LET e == unitMap(u)
        n == StripLeadingZeros(w)
        padded == IF Len(n) <= e THEN Zeros(e + 1 - Len(n)) \o n ELSE n
        whole == SubSeq(padded, 1, Len(padded) - e)
        fraction == StripTrailingZeros(SubSeq(padded, Len(padded) - e + 1, Len(padded)))
    IN  IF fraction = <<>> THEN whole ELSE whole \o <<".">> \o fraction

\* String(Math.round(c1 + "." + c2)): the string converts to a number, NaN
\* when it is not a numeric literal; Math.round rounds a half upwards
MathRound(c1, c2) ==
    IF IsDigit(c1) /\ IsDigit(c2)
    THEN LET r == DigitVal(c1) + (IF DigitVal(c2) >= 5 THEN 1 ELSE 0)
         IN  IF r = 10 THEN <<"1", "0">> ELSE <<DigitChars[r + 1]>>
    ELSE <<"N", "a", "N">>

DefaultDigits == 2

\* s[i] in JavaScript: undefined outside the string
charAt(s, i) == IF i \in 1..Len(s) THEN s[i] ELSE "undefined"

\* fromWeiRounded rounding without looking for the decimal point
fromWeiRounded_Unguarded(w, digitsArg, unitArg) ==
    LET d == Default(digitsArg, DefaultDigits)
        u == Default(unitArg, "ether")
        converted == fromWei(w, u)
        decimalIndex == indexOf(converted, ".")
        cut == substring(converted, 0, decimalIndex + d + 2)
        roundedLastDigit == MathRound(charAt(cut, Len(cut) - 1), charAt(cut, Len(cut)))
    IN  substring(cut, 0, Len(cut) - 2) \o roundedLastDigit

fromWeiRounded(w, digitsArg, unitArg) ==
    LET d == Default(digitsArg, DefaultDigits)
        u == Default(unitArg, "ether")
        converted == fromWei(w, u)
        decimalIndex == indexOf(converted, ".")
    IN  IF decimalIndex # -1
        THEN LET cut == substring(converted, 0, decimalIndex + d + 2)
                 roundedLastDigit == MathRound(cut[Len(cut) - 1], cut[Len(cut)])
             IN  substring(cut, 0, Len(cut) - 2) \o roundedLastDigit
        ELSE converted

------------------------------------------------------------------------------
(* States in which no function has been called *)

IdleEqual == first = Null /\ second = Null /\ equal = FALSE
IdleWei == wei = <<"0">> /\ digits = <<>> /\ unit = <<>> /\ unitValue = <<>>
IdleShorten == address = Null /\ charsLength = <<>> /\ shortened = <<>>
IdleCache == cache = {} /\ created = 0 /\ calls = <<>>

------------------------------------------------------------------------------
(* Specification of fromWeiRounded: Init draws the arguments *)

WeiDigits == {"0", "1", "2", "3", "5", "9"}

WeiInputs ==
    {sig \o Zeros(z) : sig \in Strings(WeiDigits, MaxSig) \ {<<>>}, z \in 0..MaxZeros}

DigitsInputs == {<<>>} \cup {<<d>> : d \in 0..MaxDigits}

UnitInputs == {<<>>, <<"wei">>, <<"kwei">>, <<"gwei">>, <<"ether">>}

InitWei ==
    /\ pc = "call"
    /\ wei \in WeiInputs
    /\ digits \in DigitsInputs
    /\ unit \in UnitInputs
    /\ unitValue = <<>>
    /\ IdleEqual /\ IdleShorten /\ IdleCache

CallFromWeiRounded ==
    /\ pc = "call"
    /\ unitValue' = fromWeiRounded(wei, digits, unit)
    /\ pc' = "done"
    /\ UNCHANGED <<first, second, equal, wei, digits, unit,
                   address, charsLength, shortened, cache, created, calls>>

NextWei == CallFromWeiRounded

SpecWei == InitWei /\ [][NextWei]_vars

------------------------------------------------------------------------------
(* Properties of fromWeiRounded *)

\* the arguments of the call, with the defaults applied
TheDigits == Default(digits, DefaultDigits)
TheUnit == Default(unit, "ether")

\* the last e digits of the wei amount, e the unit's exponent: the fraction
\* of the amount in the unit, as exactly e digits
FractionDigits(w, u) ==
    LET e == unitMap(u)
        n == Zeros(e + 1) \o w
    IN  SubSeq(n, Len(n) - e + 1, Len(n))

\* the digits of the amount before the fraction, without leading zeros
WholeDigits(w, u) ==
    LET e == unitMap(u)
        n == Zeros(e + 1) \o w
    IN  StripLeadingZeros(SubSeq(n, 1, Len(n) - e))

\* the amount is a whole number of units
NoFraction(w, u) == \A i \in 1..unitMap(u) : FractionDigits(w, u)[i] = "0"

\* number of digits of the fraction of the amount, trailing zeros not counted
FractionLen(w, u) == Len(StripTrailingZeros(FractionDigits(w, u)))

\* the exact decimal string of the amount in the unit
ExactString(w, u) ==
    IF NoFraction(w, u) THEN WholeDigits(w, u)
    ELSE WholeDigits(w, u) \o <<".">> \o StripTrailingZeros(FractionDigits(w, u))

AllDigits(s) == \A i \in 1..Len(s) : IsDigit(s[i])

\* digits, or digits '.' digits
IsDecimal(s) ==
    LET p == indexOf(s, ".")
    IN  IF p = -1 THEN Len(s) >= 1 /\ AllDigits(s)
        ELSE /\ p >= 1 /\ p + 1 < Len(s)
             /\ AllDigits(SubSeq(s, 1, p))
             /\ AllDigits(SubSeq(s, p + 2, Len(s)))

\* number of characters after the decimal point
Decimals(s) == IF indexOf(s, ".") = -1 THEN 0 ELSE Len(s) - indexOf(s, ".") - 1

\* the number a decimal string denotes: its whole digits without leading
\* zeros and its fraction digits without trailing zeros
Denoted(s) ==
    LET p == indexOf(s, ".")
    IN  IF p = -1 THEN <<StripLeadingZeros(s), <<>> >>
        ELSE <<StripLeadingZeros(SubSeq(s, 1, p)),
               StripTrailingZeros(SubSeq(s, p + 2, Len(s)))>>

RECURSIVE Increment(_)
\* the digit string of n + 1
Increment(s) ==
    IF s = <<>> THEN <<"1">>
    ELSE IF s[Len(s)] = "9" THEN Increment(SubSeq(s, 1, Len(s) - 1)) \o <<"0">>
    ELSE SubSeq(s, 1, Len(s) - 1) \o <<DigitChars[DigitVal(s[Len(s)]) + 2]>>

\* the amount in the unit rounded half up to d digits after the decimal
\* point, as the number it denotes
RoundHalfUp(w, d, u) ==
    LET e == unitMap(u)
        k == IF d < e THEN d ELSE e
        frac == FractionDigits(w, u)
        floor == WholeDigits(w, u) \o SubSeq(frac, 1, k)
        up == e > d /\ DigitVal(frac[d + 1]) >= 5
        scaled == Zeros(k) \o (IF up THEN Increment(floor) ELSE floor)
    IN  <<StripLeadingZeros(SubSeq(scaled, 1, Len(scaled) - k)),
          StripTrailingZeros(SubSeq(scaled, Len(scaled) - k + 1, Len(scaled)))>>

OneEther == <<"1">> \o Zeros(18)

\* C1: an amount whose fraction has at most `digits` digits is returned as its
\* exact decimal string, so 1230000000000000000 wei with 2 digits is "1.23"
C1_ExactWhenFractionFits ==
    pc = "done" =>
        /\ FractionLen(wei, TheUnit) <= TheDigits => unitValue = ExactString(wei, TheUnit)
        /\ (wei = <<"1", "2", "3">> \o Zeros(16) /\ TheDigits = 2 /\ TheUnit = "ether")
              => unitValue = <<"1", ".", "2", "3">>

\* C2: the returned string denotes the amount in the unit rounded half up to
\* `digits` digits after the decimal point
C2_RoundedHalfUp ==
    pc = "done" =>
        /\ IsDecimal(unitValue)
        /\ Denoted(unitValue) = RoundHalfUp(wei, TheDigits, TheUnit)

\* C7: an amount that is a whole number of units is returned as that whole
\* number, without decimal point or zeros, whatever `digits` is
C7_WholeUnchanged ==
    (pc = "done" /\ NoFraction(wei, TheUnit)) =>
        /\ unitValue = WholeDigits(wei, TheUnit)
        /\ indexOf(unitValue, ".") = -1

C7_Witness ==
    /\ pc = "done"
    /\ wei = OneEther /\ digits = <<2>> /\ unit = <<"ether">>
    /\ unitValue = <<"1">>

\* C8: the returned string is a decimal string: digits, optionally followed by
\* one '.' and between 1 and `digits` digits
C8_WellFormed ==
    pc = "done" => IsDecimal(unitValue) /\ Decimals(unitValue) <= TheDigits

------------------------------------------------------------------------------
(* shortenAddress *)

\* String.prototype.slice(begin, end): a negative index counts from the end
slice(s, begin, end) ==
    LET clamp(i) == IF i < 0 THEN (IF Len(s) + i < 0 THEN 0 ELSE Len(s) + i)
                    ELSE (IF i > Len(s) THEN Len(s) ELSE i)
    IN  substring(s, clamp(begin), clamp(end))

\* String.prototype.slice(begin): to the end of the string; -0 is 0
sliceFrom(s, begin) == slice(s, begin, Len(s))

DefaultCharsLength == 4

prefixLength == 2

\* shortenAddress with a threshold that forgets the prefix
shortenAddress_NoPrefix(a, charsArg) ==
    LET c == Default(charsArg, DefaultCharsLength)
    IN  IF ~Truthy(a) THEN <<>>
        ELSE IF Len(a.s) < c * 2 THEN a.s
        ELSE slice(a.s, 0, c + prefixLength) \o <<"ellipsis">> \o sliceFrom(a.s, -c)

shortenAddress(a, charsArg) ==
    LET c == Default(charsArg, DefaultCharsLength)
    IN  IF ~Truthy(a) THEN <<>>
        ELSE IF Len(a.s) < c * 2 + prefixLength THEN a.s
        ELSE slice(a.s, 0, c + prefixLength) \o <<"ellipsis">> \o sliceFrom(a.s, -c)

------------------------------------------------------------------------------
(* Specification of shortenAddress: Init draws the arguments *)

\* the address of the examples of the documentation, repeated as needed
SampleAddress ==
    <<"0", "x", "1", "9", "7", "3", "1", "9", "7", "7", "9", "3", "1", "2", "7", "1">>

Sample(n) == [i \in 1..n |-> SampleAddress[((i - 1) % Len(SampleAddress)) + 1]]

AddressInputs ==
    {Null, Undefined}
        \cup {Str(Sample(n)) : n \in 0..MaxAddrLen}
        \cup {Str(s) : s \in Strings({"0", "x"}, MaxShortLen)}

CharsLengthInputs == {<<>>} \cup {<<c>> : c \in 0..MaxChars}

InitShorten ==
    /\ pc = "call"
    /\ address \in AddressInputs
    /\ charsLength \in CharsLengthInputs
    /\ shortened = <<>>
    /\ IdleEqual /\ IdleWei /\ IdleCache

CallShortenAddress ==
    /\ pc = "call"
    /\ shortened' = shortenAddress(address, charsLength)
    /\ pc' = "done"
    /\ UNCHANGED <<first, second, equal, wei, digits, unit, unitValue,
                   address, charsLength, cache, created, calls>>

NextShorten == CallShortenAddress

SpecShorten == InitShorten /\ [][NextShorten]_vars

------------------------------------------------------------------------------
(* Properties of shortenAddress *)

TheCharsLength == Default(charsLength, DefaultCharsLength)

FirstChars(s, n) == [i \in 1..n |-> s[i]]

LastChars(s, n) == [i \in 1..n |-> s[Len(s) - n + i]]

\* C4: a non-empty address of at least charsLength*2 + 2 characters becomes
\* its first charsLength+2 characters, one ellipsis and its last charsLength
\* characters, charsLength*2 + 3 characters in all
C4_ShortenedShape ==
    (pc = "done" /\ Truthy(address) /\ Len(address.s) >= TheCharsLength * 2 + 2) =>
        /\ shortened = FirstChars(address.s, TheCharsLength + 2) \o <<"ellipsis">>
                           \o LastChars(address.s, TheCharsLength)
        /\ Len(shortened) = TheCharsLength * 2 + 3

\* C6: a falsy address gives the empty string, and an address of fewer than
\* charsLength*2 + 2 characters is returned unchanged
C6_FalsyAndShort ==
    pc = "done" =>
        /\ ~Truthy(address) => shortened = <<>>
        /\ (Truthy(address) /\ Len(address.s) < TheCharsLength * 2 + 2)
              => shortened = address.s

C6_Witness ==
    /\ pc = "done"
    /\ address = Str(Sample(8)) /\ charsLength = <<>>
    /\ shortened = <<"0", "x", "1", "9", "7", "3", "1", "9">>

\* C10: the result is never longer than the address
C10_NeverLonger ==
    (pc = "done" /\ address.t = "string") => Len(shortened) <= Len(address.s)

------------------------------------------------------------------------------
(* addressesEqual *)

\* String.prototype.toLowerCase, one character at a time
lowerChar(c) ==
    CASE c = "A" -> <<"a">>
      [] c = "S" -> <<"s">>
      [] c = "X" -> <<"x">>
      [] OTHER -> <<c>>

\* String.prototype.toUpperCase, one character at a time: the upper case of
\* U+00DF is the two characters "SS"
upperChar(c) ==
    CASE c = "a" -> <<"A">>
      [] c = "s" -> <<"S">>
      [] c = "x" -> <<"X">>
      [] c = "eszett" -> <<"S", "S">>
      [] OTHER -> <<c>>

RECURSIVE toLowerCase(_)
toLowerCase(s) == IF s = <<>> THEN <<>> ELSE lowerChar(Head(s)) \o toLowerCase(Tail(s))

RECURSIVE toUpperCase(_)
toUpperCase(s) == IF s = <<>> THEN <<>> ELSE upperChar(Head(s)) \o toUpperCase(Tail(s))

\* v && v.toLowerCase(): a falsy v is the result, unchanged
lowered(v) == IF Truthy(v) THEN Str(toLowerCase(v.s)) ELSE v

\* addressesEqual comparing the arguments as they are
addressesEqual_CaseSensitive(a, b) == a = b

\* first === second after both were lowered
addressesEqual(a, b) == lowered(a) = lowered(b)

------------------------------------------------------------------------------
(* Specification of addressesEqual: Init draws the arguments *)

AsciiChars == {"0", "a", "A", "x", "X"}

EqualChars == AsciiChars \cup {"s", "S", "eszett"}

IsAscii(s) == \A i \in 1..Len(s) : s[i] \in AsciiChars \cup {"s", "S"}

EqualInputs ==
    {Null, Undefined} \cup {Str(s) : s \in Strings(EqualChars, MaxStrLen)}

\* the upper case of every string argument
UpperInputs == {Str(toUpperCase(v.s)) : v \in EqualInputs \ {Null, Undefined}}

InitEqual ==
    /\ pc = "call"
    /\ first \in EqualInputs
    /\ second \in EqualInputs \cup UpperInputs
    /\ equal = FALSE
    /\ IdleWei /\ IdleShorten /\ IdleCache

CallAddressesEqual ==
    /\ pc = "call"
    /\ equal' = addressesEqual(first, second)
    /\ pc' = "done"
    /\ UNCHANGED <<first, second, wei, digits, unit, unitValue,
                   address, charsLength, shortened, cache, created, calls>>

NextEqual == CallAddressesEqual

SpecEqual == InitEqual /\ [][NextEqual]_vars

------------------------------------------------------------------------------
(* Properties of addressesEqual *)

BothStrings == first.t = "string" /\ second.t = "string"

\* two strings are equal exactly when their lower-cased forms are the same,
\* null equals null and null differs from the empty string
EqualOnLowerCase ==
    /\ BothStrings => (equal <=> toLowerCase(first.s) = toLowerCase(second.s))
    /\ (first = Null /\ second = Null) => equal
    /\ (first = Null /\ second = Str(<<>>)) => ~equal

\* C5 as stated: every string equals its own upper case, two strings are
\* equal exactly when their lower-cased forms are the same, null equals null
\* and null differs from the empty string
C5_CaseInsensitive ==
    pc = "done" =>
        /\ (BothStrings /\ second.s = toUpperCase(first.s)) => equal
        /\ EqualOnLowerCase

\* C5 as amended: every string of ASCII characters equals its own upper
\* case; the rest as stated
C5_CaseInsensitiveAscii ==
    pc = "done" =>
        /\ (BothStrings /\ IsAscii(first.s) /\ second.s = toUpperCase(first.s)) => equal
        /\ EqualOnLowerCase

C5_Witness ==
    /\ pc = "done"
    /\ first = Str(<<"0", "x">>) /\ second = Str(<<"0", "X">>)
    /\ equal

------------------------------------------------------------------------------
(* getWeb3 *)

\* The providers a caller may pass.  An object provider has an identity (id)
\* besides its field values (host): providers 1 and 2 are two objects with
\* equal fields.  A string provider is a primitive value, not an object.
Providers ==
    { [kind |-> "object", id |-> 1, host |-> "a"],
      [kind |-> "object", id |-> 2, host |-> "a"],
      [kind |-> "object", id |-> 3, host |-> "b"],
      [kind |-> "string", id |-> 0, host |-> "a"] }

\* a cache that is never consulted
cacheHas_Never(c, p) == FALSE

\* the cache is a set of entries <<key, value>>, the key an object's identity
cacheHas(c, p) == p.kind = "object" /\ \E e \in c : e[1] = p.id

cacheGet(c, p) == (CHOOSE e \in c : e[1] = p.id)[2]

\* WeakMap.prototype.set replaces the entry of the key
cacheSet(c, p, v) == {e \in c : e[1] # p.id} \cup {<<p.id, v>>}

\* getWeb3 catching the constructor's error and caching the missing instance
getWeb3_Swallow(c, n, p, ctorThrows) ==
    IF p.kind = "object" /\ \E e \in c : e[1] = p.id
    THEN [cache |-> c, created |-> n, outcome |-> "return",
          web3 |-> (CHOOSE e \in c : e[1] = p.id)[2], ctor |-> "none"]
    ELSE IF ctorThrows
    THEN [cache |-> {e \in c : e[1] # p.id} \cup {<<p.id, 0>>}, created |-> n,
          outcome |-> "return", web3 |-> 0, ctor |-> "threw"]
    ELSE IF p.kind # "object"
    THEN [cache |-> c, created |-> n + 1, outcome |-> "throw",
          web3 |-> 0, ctor |-> "ok"]
    ELSE [cache |-> {e \in c : e[1] # p.id} \cup {<<p.id, n + 1>>}, created |-> n + 1,
          outcome |-> "return", web3 |-> n + 1, ctor |-> "ok"]

\* One call of getWeb3(p) from cache c with n instances constructed so far;
\* ctorThrows: the constructor new Web3(p) throws.  Instances are numbered in
\* the order of their construction.  WeakMap.prototype.set throws a TypeError
\* for a key that is not an object.  ctor tells what the constructor did:
\* "none" (not called), "threw" or "ok".
getWeb3(c, n, p, ctorThrows) ==
    IF cacheHas(c, p)
    THEN [cache |-> c, created |-> n, outcome |-> "return",
          web3 |-> cacheGet(c, p), ctor |-> "none"]
    ELSE IF ctorThrows
    THEN [cache |-> c, created |-> n, outcome |-> "throw",
          web3 |-> 0, ctor |-> "threw"]
    ELSE IF p.kind # "object"
    THEN [cache |-> c, created |-> n + 1, outcome |-> "throw",
          web3 |-> 0, ctor |-> "ok"]
    ELSE [cache |-> cacheSet(c, p, n + 1), created |-> n + 1, outcome |-> "return",
          web3 |-> n + 1, ctor |-> "ok"]

InitCache ==
    /\ pc = "call"
    /\ cache = {}
    /\ created = 0
    /\ calls = <<>>
    /\ IdleEqual /\ IdleWei /\ IdleShorten

GetWeb3(p) ==
    /\ Len(calls) < MaxCalls
    /\ \E ctorThrows \in BOOLEAN :
          LET r == getWeb3(cache, created, p, ctorThrows)
          IN  /\ cache' = r.cache
              /\ created' = r.created
              /\ calls' = Append(calls, [provider |-> p, outcome |-> r.outcome,
                                         web3 |-> r.web3, ctor |-> r.ctor])
    /\ UNCHANGED <<pc, first, second, equal, wei, digits, unit, unitValue,
                   address, charsLength, shortened>>

NextCache == \E p \in Providers : GetWeb3(p)

SpecCache == InitCache /\ [][NextCache]_vars

------------------------------------------------------------------------------
(* Properties of getWeb3 *)

Returned(i) == calls[i].outcome = "return"

IsObject(i) == calls[i].provider.kind = "object"

\* the calls that constructed the instance they returned
Constructions(p) ==
    {i \in 1..Len(calls) : calls[i].provider = p /\ Returned(i) /\ calls[i].ctor = "ok"}

\* C3, the calls: the same provider object always got the same instance, two
\* provider objects got two instances, an instance was constructed once per
\* provider object, and the cache holds one entry per provider identity
C3_OnePerProvider ==
    /\ \A i, j \in 1..Len(calls) :
          (Returned(i) /\ Returned(j) /\ IsObject(i) /\ IsObject(j)) =>
              (calls[i].web3 = calls[j].web3 <=> calls[i].provider = calls[j].provider)
    /\ \A i \in 1..Len(calls) :
          (Returned(i) /\ IsObject(i)) => Cardinality(Constructions(calls[i].provider)) = 1
    /\ \A e1, e2 \in cache : e1[1] = e2[1] => e1 = e2

\* C3, the cache: an entry of the cache is never replaced nor removed
C3_EntriesKept == [][cache \subseteq cache']_vars

\* C3: calls and cache together
C3_Idempotent == [](C3_OnePerProvider) /\ C3_EntriesKept

C3_Witness ==
    \E i, j, k \in 1..Len(calls) :
        /\ i < j /\ Returned(i) /\ Returned(j) /\ Returned(k)
        /\ calls[i].provider = calls[j].provider
        /\ calls[i].web3 = calls[j].web3
        /\ calls[k].provider.id # calls[i].provider.id
        /\ calls[k].provider.host = calls[i].provider.host
        /\ calls[k].web3 # calls[i].web3

LastCall == calls'[Len(calls')]

\* C9, one call: a call whose construction fails throws and leaves the cache
\* as it was
C9_FailureKeepsCache ==
    [][LastCall.ctor = "threw" => (LastCall.outcome = "throw" /\ cache' = cache)]_vars

\* C9, later calls: after a failed call, the next call with the same provider
\* constructs again
C9_Retries ==
    \A i, j \in 1..Len(calls) :
        ( /\ i < j
          /\ calls[i].provider = calls[j].provider
          /\ calls[i].ctor = "threw"
          /\ \A k \in (i + 1)..(j - 1) : calls[k].provider # calls[i].provider )
        => calls[j].ctor # "none"

\* C9: a failed construction propagates, stores nothing, and is tried again
C9_FailurePropagates == [](C9_Retries) /\ C9_FailureKeepsCache

C9_Witness ==
    \E i, j \in 1..Len(calls) :
        /\ i < j
        /\ calls[i].provider = calls[j].provider
        /\ calls[i].provider.kind = "object"
        /\ calls[i].ctor = "threw"
        /\ Returned(j) /\ calls[j].ctor = "ok"
        /\ cache # {}

====
